---------------------------- MODULE Spec2Model ----------------------------
(***************************************************************************)
(* Model of follow_me.cpp (Linux/RControlStationComm/mavlink_followrcs).   *)
(*                                                                         *)
(* Three threads act on the state:                                         *)
(*   - the main thread, one action per blocking SDK call or wait loop of   *)
(*     main(), in program order (variable pc);                             *)
(*   - the telemetry thread of the SDK, which runs the flight-mode         *)
(*     callback registered at line 127;                                    *)
(*   - the thread of RCSLocationProvider, which runs the relay callback    *)
(*     registered at line 142, one action per statement that reads or      *)
(*     writes shared state (variable relay).                               *)
(* The vehicle and the other users of the autopilot are the environment.   *)
(*                                                                         *)
(* Units: altitudes are in decimetres (2.4 m is 24); latitudes and         *)
(* longitudes are in grid units, LATITUDE_DEG_PER_METER and                *)
(* LONGITUDE_DEG_PER_METER grid units to the metre.                        *)
(*                                                                         *)
(* exit() and the return of main end the process: no thread takes a step   *)
(* once status is not "running".                                           *)
(***************************************************************************)
EXTENDS Integers, Sequences, FiniteSets, TLC

(* ------------------------------ constants ------------------------------ *)

\* follow_me.cpp:35
MAX_FOLLOW_DISTANCE_METERS == 5

\* follow_me.cpp:37
MAX_SECONDS_TO_FOLLOW == 60

\* follow_me.cpp:111, 2.4 m in decimetres
TAKEOFF_ALTITUDE_DM == 24

\* <cstdlib>, used at follow_me.cpp:189 and 197
EXIT_FAILURE == 1

\* rcs_location_provider.h: grid units of latitude, of longitude, per metre
LATITUDE_DEG_PER_METER == 1

LONGITUDE_DEG_PER_METER == 2

(* -------------------------------- bounds ------------------------------- *)

\* systems that can be discovered on the connection
MaxSystems == 2

\* the vehicle climbs and descends ClimbStep decimetres per telemetry update,
\* between 0 and MaxAltitude
ClimbStep == 12

MaxAltitude == 24

\* positions the vehicle reports, <<latitude, longitude>>
VehiclePositions == {<<0, 0>>, <<9, 19>>}

\* fixes the location provider delivers, <<latitude, longitude>>
Fixes == {<<4, 9>>, <<5, 9>>, <<4, 10>>}

\* results of an SDK command: Success and one of the others
Results == {"Success", "CommandDenied"}

FlightModes == {"Hold", "Takeoff", "FollowMe", "Land", "Manual"}

\* modes another party (a pilot, a second ground station) selects
ExternalModes == {"Manual"}

(* ------------------------------- state --------------------------------- *)

VARIABLES
    pc,                 \* main thread: the statement it executes next
    status,             \* "running", or how the process ended
    exit_code,          \* exit status of the process, -1 while it runs
    argc,               \* main's argument count
    connection_result,  \* result of add_any_connection, "None" before the call
    discover_registered,\* register_on_discover was called
    discovered_system,  \* the flag the discovery callback sets
    num_systems,        \* dc.system_uuids().size()
    checked_systems,    \* the size read at line 83, -1 before
    plugins_created,    \* action, follow_me and telemetry exist
    health_all_ok,      \* telemetry->health_all_ok()
    armed,              \* telemetry->armed()
    in_air,             \* telemetry->in_air()
    relative_altitude,  \* telemetry->position().relative_altitude_m
    position,           \* telemetry->position(): <<latitude, longitude>>
    flight_mode,        \* flight mode the vehicle reports
    external_change,    \* another party changed the flight mode
    subscribed,         \* a flight-mode callback is registered
    delivered,          \* mode delivered to the last flight-mode callback
    lp_registered,      \* request_location_updates was called
    lp_running,         \* location_provider.is_running()
    count,              \* static int count of the follow loop
    relay,              \* the relay callback in progress
    target,             \* last argument of follow_me->set_target_location
    cmds                \* vehicle commands issued, in order, with results

vars == <<pc, status, exit_code, argc, connection_result, discover_registered,
          discovered_system, num_systems, checked_systems, plugins_created,
          health_all_ok, armed, in_air, relative_altitude, position,
          flight_mode, external_change, subscribed, delivered, lp_registered,
          lp_running, count, relay, target, cmds>>

\* what only the main thread and the callbacks write
programVars == <<pc, status, exit_code, argc, connection_result,
                 discover_registered, checked_systems, plugins_created,
                 subscribed, delivered, lp_registered, count, cmds>>

vehicleVars == <<health_all_ok, armed, in_air, relative_altitude, position,
                 flight_mode, external_change>>

discoveryVars == <<discovered_system, num_systems>>

relayVars == <<relay, target>>

(* ------------------------------- helpers ------------------------------- *)

fabs(x) == IF x < 0 THEN -x ELSE x

Min(a, b) == IF a < b THEN a ELSE b

Max(a, b) == IF a < b THEN b ELSE a

Running == status = "running"

\* the relay callback is not running
RelayIdle == [pc |-> "idle", lat |-> 0, lon |-> 0, vlat |-> 0, lat_diff |-> 0]

\* set_target_location was never called
NoTarget == [set |-> FALSE, lat |-> 0, lon |-> 0, after_stop |-> FALSE]

\* a command as it is issued: the telemetry the vehicle reports at the call
Command(name, result) ==
    [cmd |-> name, result |-> result, armed |-> armed, in_air |-> in_air,
     altitude |-> relative_altitude, health |-> health_all_ok]

Issued(name) == \E i \in 1..Len(cmds) : cmds[i].cmd = name

Succeeded(name) ==
    \E i \in 1..Len(cmds) : cmds[i].cmd = name /\ cmds[i].result = "Success"

\* exit(code) called from `how`
Exit(how, code) ==
    /\ status' = how
    /\ exit_code' = code

(* ------------------------------ initial state -------------------------- *)

Init ==
    /\ pc = "main"
    /\ status = "running"
    /\ exit_code = -1
    /\ argc \in 1..3
    /\ connection_result = "None"
    /\ discover_registered = FALSE
    /\ discovered_system = FALSE
    /\ num_systems = 0
    /\ checked_systems = -1
    /\ plugins_created = FALSE
    /\ health_all_ok \in BOOLEAN
    /\ armed \in BOOLEAN
    /\ in_air \in BOOLEAN
    /\ in_air => armed
    /\ relative_altitude = IF in_air THEN ClimbStep ELSE 0
    /\ position \in VehiclePositions
    /\ flight_mode = "Hold"
    /\ external_change = FALSE
    /\ subscribed = FALSE
    /\ delivered = "None"
    /\ lp_registered = FALSE
    /\ lp_running = FALSE
    /\ count = 0
    /\ relay = RelayIdle
    /\ target = NoTarget
    /\ cmds = <<>>

(* ------------------- conditions of the program's branches -------------- *)

\* the test of line 59 with >= for ==
HasConnectionUrlOrMore(n) == n >= 2

\* line 59: argc == 2
HasConnectionUrl(n) == n = 2

\* line 67: connection_result != ConnectionResult::Success
ConnectionFailed(result) == result # "Success"

\* the test of line 83 off by one
TooManySystemsOffByOne(n) == n > 2

\* line 83: dc.system_uuids().size() > 1
TooManySystems(n) == n > 1

\* a takeoff that does not wait for the altitude
BelowTakeoffAltitudeNever(altitude) == FALSE

\* line 111: relative_altitude_m < 2.4
BelowTakeoffAltitude(altitude) == altitude < TAKEOFF_ALTITUDE_DM

\* a watchdog that never trips
FlightModeChangedNever(mode) == FALSE

\* line 129: flight_mode != Telemetry::FlightMode::FollowMe
FlightModeChanged(mode) == mode # "FollowMe"

\* the comparison of lines 151-152 with <= for <
WithinFollowDistanceInclusive(lat_diff, lon_diff) ==
    /\ lat_diff <= MAX_FOLLOW_DISTANCE_METERS * LATITUDE_DEG_PER_METER
    /\ lon_diff <= MAX_FOLLOW_DISTANCE_METERS * LONGITUDE_DEG_PER_METER

\* lines 151-152: both distances, in metres, below MAX_FOLLOW_DISTANCE_METERS.
\* d / k < m is d < m * k for the positive k of the two constants.
WithinFollowDistance(lat_diff, lon_diff) ==
    /\ lat_diff < MAX_FOLLOW_DISTANCE_METERS * LATITUDE_DEG_PER_METER
    /\ lon_diff < MAX_FOLLOW_DISTANCE_METERS * LONGITUDE_DEG_PER_METER

\* the test of line 162 with > for >=
FollowTimeExpiredLate(c) == c > MAX_SECONDS_TO_FOLLOW

\* line 162: ++count >= MAX_SECONDS_TO_FOLLOW, c the incremented count
FollowTimeExpired(c) == c >= MAX_SECONDS_TO_FOLLOW

\* an action_error_exit that ignores the result
action_error_exit_ignored(result) == FALSE

\* lines 185-191: TRUE when action_error_exit calls exit(EXIT_FAILURE)
action_error_exit(result) == result # "Success"

\* a follow_me_error_exit that ignores the result
follow_me_error_exit_ignored(result) == FALSE

\* lines 193-199: TRUE when follow_me_error_exit calls exit(EXIT_FAILURE)
follow_me_error_exit(result) == result # "Success"

(* ------------------------------ main thread ---------------------------- *)

\* lines 59-65
ParseArguments ==
    /\ Running /\ pc = "main"
    /\ IF HasConnectionUrl(argc)
       THEN /\ connection_result' \in {"Success", "ConnectionError"}
            /\ pc' = "check_connection"
            /\ UNCHANGED <<status, exit_code>>
       ELSE /\ Exit("usage", 1)
            /\ UNCHANGED <<pc, connection_result>>
    /\ UNCHANGED <<argc, discover_registered, checked_systems, plugins_created,
                   subscribed, delivered, lp_registered, lp_running, count, cmds>>
    /\ UNCHANGED <<vehicleVars, discoveryVars, relayVars>>

\* lines 67-71
CheckConnection ==
    /\ Running /\ pc = "check_connection"
    /\ IF ConnectionFailed(connection_result)
       THEN /\ Exit("connection_failed", 1)
            /\ pc' = pc
       ELSE /\ pc' = "register_on_discover"
            /\ UNCHANGED <<status, exit_code>>
    /\ UNCHANGED <<argc, connection_result, discover_registered, checked_systems,
                   plugins_created, subscribed, delivered, lp_registered,
                   lp_running, count, cmds>>
    /\ UNCHANGED <<vehicleVars, discoveryVars, relayVars>>

\* lines 73-78: the SDK calls the new callback for the systems it knows already
RegisterOnDiscover ==
    /\ Running /\ pc = "register_on_discover"
    /\ discover_registered' = TRUE
    /\ discovered_system' = (num_systems > 0)
    /\ pc' = "wait_discover"
    /\ UNCHANGED <<status, exit_code, argc, connection_result, num_systems,
                   checked_systems, plugins_created, subscribed, delivered,
                   lp_registered, lp_running, count, cmds>>
    /\ UNCHANGED <<vehicleVars, relayVars>>

\* lines 80-81: the loop is left once discovered_system is read true
WaitDiscover ==
    /\ Running /\ pc = "wait_discover"
    /\ discovered_system
    /\ pc' = "check_systems"
    /\ UNCHANGED <<status, exit_code, argc, connection_result,
                   discover_registered, checked_systems, plugins_created,
                   subscribed, delivered, lp_registered, lp_running, count, cmds>>
    /\ UNCHANGED <<vehicleVars, discoveryVars, relayVars>>

\* lines 83-92
CheckSystems ==
    /\ Running /\ pc = "check_systems"
    /\ checked_systems' = num_systems
    /\ IF TooManySystems(num_systems)
       THEN /\ Exit("too_many_systems", 1)
            /\ UNCHANGED <<pc, plugins_created>>
       ELSE /\ plugins_created' = TRUE
            /\ pc' = "wait_health"
            /\ UNCHANGED <<status, exit_code>>
    /\ UNCHANGED <<argc, connection_result, discover_registered, subscribed,
                   delivered, lp_registered, lp_running, count, cmds>>
    /\ UNCHANGED <<vehicleVars, discoveryVars, relayVars>>

\* lines 94-98
WaitHealth ==
    /\ Running /\ pc = "wait_health"
    /\ health_all_ok
    /\ pc' = "arm"
    /\ UNCHANGED <<status, exit_code, argc, connection_result,
                   discover_registered, checked_systems, plugins_created,
                   subscribed, delivered, lp_registered, lp_running, count, cmds>>
    /\ UNCHANGED <<vehicleVars, discoveryVars, relayVars>>

\* lines 100-105: an accepted arm command arms the vehicle
Arm ==
    /\ Running /\ pc = "arm"
    /\ IF ~armed
       THEN \E result \in Results :
              /\ cmds' = Append(cmds, Command("arm", result))
              /\ IF action_error_exit(result)
                 THEN /\ Exit("action_error_exit", EXIT_FAILURE)
                      /\ UNCHANGED <<pc, armed>>
                 ELSE /\ armed' = TRUE
                      /\ pc' = "takeoff"
                      /\ UNCHANGED <<status, exit_code>>
       ELSE /\ pc' = "takeoff"
            /\ UNCHANGED <<status, exit_code, armed, cmds>>
    /\ UNCHANGED <<argc, connection_result, discover_registered, checked_systems,
                   plugins_created, subscribed, delivered, lp_registered,
                   lp_running, count>>
    /\ UNCHANGED <<health_all_ok, in_air, relative_altitude, position,
                   flight_mode, external_change>>
    /\ UNCHANGED <<discoveryVars, relayVars>>

\* lines 107-110: an accepted takeoff command puts the vehicle in Takeoff mode
Takeoff ==
    /\ Running /\ pc = "takeoff"
    /\ IF ~in_air
       THEN \E result \in Results :
              /\ cmds' = Append(cmds, Command("takeoff", result))
              /\ IF action_error_exit(result)
                 THEN /\ Exit("action_error_exit", EXIT_FAILURE)
                      /\ UNCHANGED <<pc, flight_mode>>
                 ELSE /\ flight_mode' = "Takeoff"
                      /\ pc' = "wait_altitude"
                      /\ UNCHANGED <<status, exit_code>>
       ELSE /\ pc' = "set_config"
            /\ UNCHANGED <<status, exit_code, flight_mode, cmds>>
    /\ UNCHANGED <<argc, connection_result, discover_registered, checked_systems,
                   plugins_created, subscribed, delivered, lp_registered,
                   lp_running, count>>
    /\ UNCHANGED <<health_all_ok, armed, in_air, relative_altitude, position,
                   external_change>>
    /\ UNCHANGED <<discoveryVars, relayVars>>

\* lines 111-114
WaitAltitude ==
    /\ Running /\ pc = "wait_altitude"
    /\ ~BelowTakeoffAltitude(relative_altitude)
    /\ pc' = "set_config"
    /\ UNCHANGED <<status, exit_code, argc, connection_result,
                   discover_registered, checked_systems, plugins_created,
                   subscribed, delivered, lp_registered, lp_running, count, cmds>>
    /\ UNCHANGED <<vehicleVars, discoveryVars, relayVars>>

\* lines 116-120: the result is stored and overwritten at line 123
SetConfig ==
    /\ Running /\ pc = "set_config"
    /\ \E result \in Results :
         cmds' = Append(cmds, Command("set_config", result))
    /\ pc' = "start_follow_me"
    /\ UNCHANGED <<status, exit_code, argc, connection_result,
                   discover_registered, checked_systems, plugins_created,
                   subscribed, delivered, lp_registered, lp_running, count>>
    /\ UNCHANGED <<vehicleVars, discoveryVars, relayVars>>

\* lines 122-124: an accepted start puts the vehicle in FollowMe mode
StartFollowMe ==
    /\ Running /\ pc = "start_follow_me"
    /\ \E result \in Results :
         /\ cmds' = Append(cmds, Command("start", result))
         /\ IF follow_me_error_exit(result)
            THEN /\ Exit("follow_me_error_exit", EXIT_FAILURE)
                 /\ UNCHANGED <<pc, flight_mode>>
            ELSE /\ flight_mode' = "FollowMe"
                 /\ pc' = "subscribe_flight_mode"
                 /\ UNCHANGED <<status, exit_code>>
    /\ UNCHANGED <<argc, connection_result, discover_registered, checked_systems,
                   plugins_created, subscribed, delivered, lp_registered,
                   lp_running, count>>
    /\ UNCHANGED <<health_all_ok, armed, in_air, relative_altitude, position,
                   external_change>>
    /\ UNCHANGED <<discoveryVars, relayVars>>

\* lines 126-139: registration of the flight-mode callback
SubscribeFlightMode ==
    /\ Running /\ pc = "subscribe_flight_mode"
    /\ subscribed' = TRUE
    /\ pc' = "request_location_updates"
    /\ UNCHANGED <<status, exit_code, argc, connection_result,
                   discover_registered, checked_systems, plugins_created,
                   delivered, lp_registered, lp_running, count, cmds>>
    /\ UNCHANGED <<vehicleVars, discoveryVars, relayVars>>

\* lines 141-156: registration of the relay callback; the provider runs when
\* it could reach its source
RequestLocationUpdates ==
    /\ Running /\ pc = "request_location_updates"
    /\ lp_registered' = TRUE
    /\ lp_running' \in BOOLEAN
    /\ pc' = "follow_loop"
    /\ UNCHANGED <<status, exit_code, argc, connection_result,
                   discover_registered, checked_systems, plugins_created,
                   subscribed, delivered, count, cmds>>
    /\ UNCHANGED <<vehicleVars, discoveryVars, relayVars>>

\* lines 158-164: one evaluation of the loop condition and, when it holds, one
\* iteration of the body
FollowLoop ==
    /\ Running /\ pc = "follow_loop"
    /\ IF lp_running
       THEN /\ count' = count + 1
            /\ pc' = IF FollowTimeExpired(count + 1) THEN "stop_follow_me"
                                                     ELSE "follow_loop"
       ELSE /\ pc' = "stop_follow_me"
            /\ count' = count
    /\ UNCHANGED <<status, exit_code, argc, connection_result,
                   discover_registered, checked_systems, plugins_created,
                   subscribed, delivered, lp_registered, lp_running, cmds>>
    /\ UNCHANGED <<vehicleVars, discoveryVars, relayVars>>

\* lines 166-168: an accepted stop puts the vehicle in Hold mode
StopFollowMe ==
    /\ Running /\ pc = "stop_follow_me"
    /\ \E result \in Results :
         /\ cmds' = Append(cmds, Command("stop", result))
         /\ IF follow_me_error_exit(result)
            THEN /\ Exit("follow_me_error_exit", EXIT_FAILURE)
                 /\ UNCHANGED <<pc, flight_mode>>
            ELSE /\ flight_mode' = "Hold"
                 /\ pc' = "unsubscribe_flight_mode"
                 /\ UNCHANGED <<status, exit_code>>
    /\ UNCHANGED <<argc, connection_result, discover_registered, checked_systems,
                   plugins_created, subscribed, delivered, lp_registered,
                   lp_running, count>>
    /\ UNCHANGED <<health_all_ok, armed, in_air, relative_altitude, position,
                   external_change>>
    /\ UNCHANGED <<discoveryVars, relayVars>>

\* lines 170-171: subscribe_flight_mode(nullptr)
UnsubscribeFlightMode ==
    /\ Running /\ pc = "unsubscribe_flight_mode"
    /\ subscribed' = FALSE
    /\ pc' = "land"
    /\ UNCHANGED <<status, exit_code, argc, connection_result,
                   discover_registered, checked_systems, plugins_created,
                   delivered, lp_registered, lp_running, count, cmds>>
    /\ UNCHANGED <<vehicleVars, discoveryVars, relayVars>>

\* lines 173-175: an accepted land puts the vehicle in Land mode
Land ==
    /\ Running /\ pc = "land"
    /\ \E result \in Results :
         /\ cmds' = Append(cmds, Command("land", result))
         /\ IF action_error_exit(result)
            THEN /\ Exit("action_error_exit", EXIT_FAILURE)
                 /\ UNCHANGED <<pc, flight_mode>>
            ELSE /\ flight_mode' = "Land"
                 /\ pc' = "wait_landed"
                 /\ UNCHANGED <<status, exit_code>>
    /\ UNCHANGED <<argc, connection_result, discover_registered, checked_systems,
                   plugins_created, subscribed, delivered, lp_registered,
                   lp_running, count>>
    /\ UNCHANGED <<health_all_ok, armed, in_air, relative_altitude, position,
                   external_change>>
    /\ UNCHANGED <<discoveryVars, relayVars>>

\* lines 176-181: the loop is left, and main returns 0, once in_air is read
\* false
WaitLanded ==
    /\ Running /\ pc = "wait_landed"
    /\ ~in_air
    /\ Exit("landed", 0)
    /\ pc' = "done"
    /\ UNCHANGED <<argc, connection_result, discover_registered, checked_systems,
                   plugins_created, subscribed, delivered, lp_registered,
                   lp_running, count, cmds>>
    /\ UNCHANGED <<vehicleVars, discoveryVars, relayVars>>

(* ---------------- telemetry thread: flight-mode callback --------------- *)

\* lines 128-138: the callback runs with the mode the vehicle reports; the
\* branch of line 129 calls exit(0), the rest only prints
FlightModeCallback ==
    /\ Running /\ subscribed
    /\ delivered' = flight_mode
    /\ IF FlightModeChanged(flight_mode)
       THEN Exit("watchdog", 0)
       ELSE UNCHANGED <<status, exit_code>>
    /\ UNCHANGED <<pc, argc, connection_result, discover_registered,
                   checked_systems, plugins_created, subscribed, lp_registered,
                   lp_running, count, cmds>>
    /\ UNCHANGED <<vehicleVars, discoveryVars, relayVars>>

(* ------------- location provider thread: relay callback ---------------- *)

\* lines 142-147: a fix arrives; lat_diff is computed from a first call of
\* telemetry->position()
LocationFix ==
    /\ Running /\ lp_registered /\ lp_running
    /\ relay.pc = "idle"
    /\ \E fix \in Fixes :
         relay' = [pc |-> "lon_diff", lat |-> fix[1], lon |-> fix[2],
                   vlat |-> position[1],
                   lat_diff |-> fabs(position[1] - fix[1])]
    /\ UNCHANGED <<programVars, lp_running, target>>
    /\ UNCHANGED <<vehicleVars, discoveryVars>>

\* lines 148-156: lon_diff is computed from a second call of
\* telemetry->position(); the fix is forwarded or skipped, and the callback
\* returns
RelayCheck ==
    /\ Running
    /\ relay.pc = "lon_diff"
    /\ LET lon_diff == fabs(position[2] - relay.lon)
       IN  IF WithinFollowDistance(relay.lat_diff, lon_diff)
           THEN target' = [set |-> TRUE, lat |-> relay.lat, lon |-> relay.lon,
                           after_stop |-> Issued("stop")]
           ELSE target' = target
    /\ relay' = RelayIdle
    /\ UNCHANGED <<programVars, lp_running>>
    /\ UNCHANGED <<vehicleVars, discoveryVars>>

(* ------------------------------ environment ---------------------------- *)

\* lines 75-78: the SDK learns of a system and runs the discovery callback,
\* when one is registered; system_uuids() is not read after line 89
Discover ==
    /\ Running
    /\ connection_result = "Success"
    /\ ~plugins_created
    /\ num_systems < MaxSystems
    /\ num_systems' = num_systems + 1
    /\ discovered_system' = (discovered_system \/ discover_registered)
    /\ UNCHANGED <<programVars, lp_running>>
    /\ UNCHANGED <<vehicleVars, relayVars>>

\* line 94: the vehicle's health checks pass
HealthBecomesOk ==
    /\ Running /\ plugins_created
    /\ ~health_all_ok
    /\ health_all_ok' = TRUE
    /\ UNCHANGED <<armed, in_air, relative_altitude, position, flight_mode,
                   external_change>>
    /\ UNCHANGED <<programVars, lp_running>>
    /\ UNCHANGED <<discoveryVars, relayVars>>

\* lines 109-112: the vehicle climbs after an accepted takeoff
Climb ==
    /\ Running
    /\ Succeeded("takeoff") /\ flight_mode = "Takeoff"
    /\ relative_altitude < MaxAltitude
    /\ relative_altitude' = Min(relative_altitude + ClimbStep, MaxAltitude)
    /\ in_air' = TRUE
    /\ UNCHANGED <<health_all_ok, armed, position, flight_mode, external_change>>
    /\ UNCHANGED <<programVars, lp_running>>
    /\ UNCHANGED <<discoveryVars, relayVars>>

\* lines 174-179: the vehicle descends after an accepted land
Descend ==
    /\ Running
    /\ Succeeded("land") /\ in_air
    /\ relative_altitude' = Max(relative_altitude - ClimbStep, 0)
    /\ in_air' = (relative_altitude' > 0)
    /\ UNCHANGED <<health_all_ok, armed, position, flight_mode, external_change>>
    /\ UNCHANGED <<programVars, lp_running>>
    /\ UNCHANGED <<discoveryVars, relayVars>>

\* lines 147-148: telemetry receives a new position while the relay callback
\* can run
PositionUpdate ==
    /\ Running /\ lp_registered
    /\ position' \in VehiclePositions \ {position}
    /\ UNCHANGED <<health_all_ok, armed, in_air, relative_altitude, flight_mode,
                   external_change>>
    /\ UNCHANGED <<programVars, lp_running>>
    /\ UNCHANGED <<discoveryVars, relayVars>>

\* line 129: another party selects a flight mode; the program observes the
\* mode only through the callback registered at line 127
ExternalModeChange ==
    /\ Running /\ subscribed
    /\ flight_mode' \in ExternalModes \ {flight_mode}
    /\ external_change' = TRUE
    /\ UNCHANGED <<health_all_ok, armed, in_air, relative_altitude, position>>
    /\ UNCHANGED <<programVars, lp_running>>
    /\ UNCHANGED <<discoveryVars, relayVars>>

\* line 158: the location provider stops
ProviderStops ==
    /\ Running /\ lp_running
    /\ lp_running' = FALSE
    /\ UNCHANGED <<programVars, vehicleVars, discoveryVars, relayVars>>

(* ----------------------------- specification --------------------------- *)

MainThread ==
    \/ ParseArguments
    \/ CheckConnection
    \/ RegisterOnDiscover
    \/ WaitDiscover
    \/ CheckSystems
    \/ WaitHealth
    \/ Arm
    \/ Takeoff
    \/ WaitAltitude
    \/ SetConfig
    \/ StartFollowMe
    \/ SubscribeFlightMode
    \/ RequestLocationUpdates
    \/ FollowLoop
    \/ StopFollowMe
    \/ UnsubscribeFlightMode
    \/ Land
    \/ WaitLanded

Callbacks ==
    \/ FlightModeCallback
    \/ LocationFix
    \/ RelayCheck

Environment ==
    \/ Discover
    \/ HealthBecomesOk
    \/ Climb
    \/ Descend
    \/ PositionUpdate
    \/ ExternalModeChange
    \/ ProviderStops

Next == MainThread \/ Callbacks \/ Environment

Spec == Init /\ [][Next]_vars

(* ------------------------------- claims -------------------------------- *)

\* the relay callback decides on its fix in this step
RelayDecides == relay.pc = "lon_diff" /\ relay'.pc = "idle"

\* the fix of the callback in progress is less than MAX_FOLLOW_DISTANCE_METERS
\* from the vehicle on both axes: in latitude from the position the callback
\* read at line 147, in longitude from the position telemetry reports now
FixIsNear ==
    /\ fabs(relay.vlat - relay.lat)
         < MAX_FOLLOW_DISTANCE_METERS * LATITUDE_DEG_PER_METER
    /\ fabs(position[2] - relay.lon)
         < MAX_FOLLOW_DISTANCE_METERS * LONGITUDE_DEG_PER_METER

C2_WatchdogExitsIffNotFollowMe ==
    [][ /\ delivered' # delivered => subscribed /\ delivered' = flight_mode
        /\ delivered' \notin {"None", "FollowMe"} <=> status' = "watchdog"
        /\ status' = "watchdog" => exit_code' = 0
        /\ status = "watchdog" => cmds' = cmds /\ target' = target ]_vars

\* the watchdog ended the process after another party selected Manual
C2_Witness ==
    /\ status = "watchdog"
    /\ delivered = "Manual"

\* every command of the run returned Success
AllSucceeded == \A i \in 1..Len(cmds) : cmds[i].result = "Success"

\* C3: a run in which follow-me was started, every SDK command returned
\* Success and no other party changed the flight mode issues the land
\* command; stated on the runs that have ended: none of them ended without
\* the land command.
C3_StartedRunIssuesLand ==
    (~Running /\ Succeeded("start") /\ AllSucceeded /\ ~external_change)
        => Issued("land")

\* position of the first command `name` in cmds, 0 when it was not issued
IndexOf(name) ==
    IF Issued(name)
    THEN CHOOSE i \in 1..Len(cmds) :
           cmds[i].cmd = name /\ \A j \in 1..(i - 1) : cmds[j].cmd # name
    ELSE 0

\* C4: shutdown is ordered: land is issued only after stop returned Success,
\* right after it; in_air is polled only after land returned Success; main
\* returns 0 only when telemetry reports in_air false.
C4_ShutdownOrdered ==
    /\ Issued("land") =>
         /\ Succeeded("stop")
         /\ IndexOf("land") = IndexOf("stop") + 1
         /\ IndexOf("land") = Len(cmds)
    /\ pc \in {"wait_landed", "done"} => Succeeded("land")
    /\ status = "landed" =>
         /\ pc = "done" /\ exit_code = 0
         /\ Succeeded("land")
         /\ ~in_air

\* main returned 0 after the landing
C4_Witness ==
    /\ status = "landed"
    /\ Succeeded("stop") /\ Succeeded("land")

\* C5: the program passes the discovery loop only once a system was
\* discovered; it creates the plugins and issues commands only when exactly
\* one system was known at the test of line 83, and exits with status 1,
\* without plugins and without a command, when more than one was.
C5_ExactlyOneSystem ==
    /\ pc \notin {"main", "check_connection", "register_on_discover",
                  "wait_discover"} =>
         discovered_system /\ connection_result = "Success"
    /\ checked_systems # -1 => checked_systems >= 1
    /\ (plugins_created \/ cmds # <<>>) => checked_systems = 1
    /\ checked_systems > 1 <=> status = "too_many_systems"
    /\ status = "too_many_systems" =>
         exit_code = 1 /\ ~plugins_created /\ cmds = <<>>

\* two systems were known when the discovery loop ended
C5_Witness ==
    /\ status = "too_many_systems"
    /\ checked_systems = 2

\* C6: every command is issued with health_all_ok true; arm only when the
\* vehicle is not armed; takeoff only when it is not in the air, and armed,
\* as the first command or right after a successful arm; follow-me start only
\* when the vehicle is armed and in the air, and, after a takeoff of the
\* program, at 2.4 m or more.
C6_PreflightOrder ==
    \A i \in 1..Len(cmds) :
        /\ cmds[i].health
        /\ cmds[i].cmd = "arm" => i = 1 /\ ~cmds[i].armed
        /\ cmds[i].cmd = "takeoff" =>
              /\ ~cmds[i].in_air /\ cmds[i].armed
              /\ \/ i = 1
                 \/ i = 2 /\ cmds[1].cmd = "arm" /\ cmds[1].result = "Success"
        /\ cmds[i].cmd = "start" =>
              /\ cmds[i].armed /\ cmds[i].in_air
              /\ Issued("takeoff") =>
                    cmds[i].altitude >= TAKEOFF_ALTITUDE_DM

\* follow-me was started after the program armed the vehicle and took off
C6_Witness ==
    /\ Issued("arm") /\ Issued("takeoff")
    /\ Succeeded("start")

\* the main thread left the follow loop
PastFollowLoop ==
    pc \in {"stop_follow_me", "unsubscribe_flight_mode", "land", "wait_landed",
            "done"}

\* C7: the follow loop ends: count never exceeds MAX_SECONDS_TO_FOLLOW and is
\* below it while the loop runs; every pass through the loop either leaves it
\* or adds one to count; the loop is left with count at
\* MAX_SECONDS_TO_FOLLOW or with the provider not running; and stop is issued
\* only after the loop.
C7_FollowLoopBounded ==
    [][ /\ count' \in 0..MAX_SECONDS_TO_FOLLOW
        /\ pc' = "follow_loop" => count' < MAX_SECONDS_TO_FOLLOW
        /\ (pc = "follow_loop" /\ <<pc, count>>' # <<pc, count>>) =>
             \/ pc' = "follow_loop" /\ count' = count + 1 /\ lp_running
             \/ /\ pc' = "stop_follow_me"
                /\ \/ count' = MAX_SECONDS_TO_FOLLOW /\ count' = count + 1
                   \/ ~lp_running /\ count' = count
        /\ pc # "follow_loop" => count' = count
        /\ Issued("stop")' => PastFollowLoop' ]_vars

\* the loop ran its 60 iterations with the provider still running
C7_Witness ==
    /\ pc = "stop_follow_me"
    /\ count = MAX_SECONDS_TO_FOLLOW
    /\ lp_running

\* C8: the watchdog ends the process only after a flight-mode change made by
\* another party, never after the mode changes of the program's own stop and
\* land.
C8_WatchdogOnlyOnExternalChange ==
    status = "watchdog" => external_change

\* C9: set_target_location is called only after start returned Success and
\* never once stop was issued.
C9_ForwardedOnlyWhileFollowing ==
    target.set => Succeeded("start") /\ ~target.after_stop

MainCommands == {"arm", "takeoff", "start", "stop", "land"}

\* how the process ends when command `name` fails
ErrorExitOf(name) ==
    IF name \in {"start", "stop"} THEN "follow_me_error_exit"
                                   ELSE "action_error_exit"

\* C10: a non-Success result of arm, takeoff, start, stop or land ends the
\* process with EXIT_FAILURE before another command is issued, and the
\* process ends this way only after such a result.
C10_FailedCommandExits ==
    /\ \A i \in 1..Len(cmds) :
          (cmds[i].cmd \in MainCommands /\ cmds[i].result # "Success") =>
              /\ i = Len(cmds)
              /\ status = ErrorExitOf(cmds[i].cmd)
              /\ exit_code = EXIT_FAILURE
    /\ status \in {"action_error_exit", "follow_me_error_exit"} =>
          /\ cmds # <<>>
          /\ cmds[Len(cmds)].cmd \in MainCommands
          /\ cmds[Len(cmds)].result # "Success"

\* follow-me stop failed and the process ended
C10_Witness ==
    /\ status = "follow_me_error_exit"
    /\ cmds[Len(cmds)].cmd = "stop"

\* C11: follow-me start is issued only right after a set_config that
\* returned Success.
C11_StartOnlyAfterConfigSucceeded ==
    \A i \in 1..Len(cmds) :
        cmds[i].cmd = "start" =>
            /\ i > 1
            /\ cmds[i - 1].cmd = "set_config"
            /\ cmds[i - 1].result = "Success"

\* C12: the latitude and the longitude that the check of one fix uses come
\* from the same telemetry position: when the callback decides, the position
\* it reads the longitude from has the latitude it read at line 147.
C12_CheckUsesOnePositionSample ==
    [][RelayDecides => position[1] = relay.vlat]_vars

\* C13: with an argument count other than 2 the program returns 1 without
\* calling add_any_connection, and only then; when add_any_connection
\* returns a result other than Success the program returns 1 at line 70,
\* without registering for discovery, creating a plugin or issuing a command.
C13_BadArgumentsOrConnectionReturnOne ==
    /\ argc # 2 =>
         /\ connection_result = "None"
         /\ pc = "main"
         /\ ~discover_registered /\ ~plugins_created /\ cmds = <<>>
    /\ (argc # 2 /\ ~Running) => status = "usage"
    /\ status = "usage" => argc # 2 /\ exit_code = 1
    /\ connection_result \notin {"None", "Success"} =>
         /\ pc = "check_connection"
         /\ status \in {"running", "connection_failed"}
         /\ ~discover_registered /\ ~discovered_system
         /\ ~plugins_created /\ cmds = <<>>
    /\ status = "connection_failed" =>
         /\ connection_result \notin {"None", "Success"}
         /\ exit_code = 1
    /\ discover_registered => argc = 2 /\ connection_result = "Success"

\* add_any_connection failed and main returned 1
C13_Witness ==
    /\ status = "connection_failed"
    /\ connection_result = "ConnectionError"
    /\ exit_code = 1

====
